---- MODULE Spec2Model ----
(***************************************************************************)
(* Model of the file-management service (FMS) of the backend:              *)
(*   backend/src/features/fms/fms.service.ts    (FmsService)               *)
(*   backend/src/features/fms/fms.controller.ts (FmsController)            *)
(*                                                                         *)
(* Strings whose content matters for String.prototype.replace (endpoints   *)
(* and URLs) are sequences of one-token strings.  A JavaScript number is a *)
(* record [kind, n] so that NaN and undefined can be told from integers.   *)
(***************************************************************************)
EXTENDS Integers, Sequences, FiniteSets, TLC

VARIABLES env, internalEndpoint, publicEndpoint, s3Client, bucketName,
          request, svcCall, signerCall, response

vars == <<env, internalEndpoint, publicEndpoint, s3Client, bucketName,
          request, svcCall, signerCall, response>>

----------------------------------------------------------------------------
(* Bounds of the model *)

\* endpoints are the non-empty sequences over EndpointAlphabet up to this length
MaxEndpointLen == 2
\* declared sizes lie within this distance of 0 and of the ceiling
SizeSlack == 2

----------------------------------------------------------------------------
(* Values *)

EndpointAlphabet == {"a", "b"}

\* process.env.X of a variable that is not set
UNSET == <<"undefined">>

RECURSIVE SeqsUpTo(_, _)
SeqsUpTo(S, n) ==
  IF n = 0 THEN {<<>>}
  ELSE LET shorter == SeqsUpTo(S, n - 1)
       IN shorter \cup {Append(s, c) : s \in shorter, c \in S}

\* what S3_ENDPOINT / S3_PUBLIC_ENDPOINT can hold: unset, "", or a string
EndpointValues == {UNSET} \cup SeqsUpTo(EndpointAlphabet, MaxEndpointLen)

\* JavaScript truthiness of a string | undefined
Truthy(s) == s # UNSET /\ s # <<>>

\* a || b
OrElse(a, b) == IF Truthy(a) THEN a ELSE b

\* JavaScript numbers
Num(n) == [kind |-> "number", n |-> n]
NaN == [kind |-> "NaN", n |-> 0]
UndefinedNum == [kind |-> "undefined", n |-> 0]

Keys == {"profile/john123.jpg", "a"}

UndefinedStr == "<undefined>"

ContentTypes == {"image/jpeg", "image/jpg", "image/png", "image/webp",
                 "image/gif", "IMAGE/PNG", "application/pdf", "",
                 UndefinedStr}


Digits == {"0", "1", "2", "3", "4", "5", "6", "7", "8", "9"}

DigitValue(c) ==
  CASE c = "0" -> 0 [] c = "1" -> 1 [] c = "2" -> 2 [] c = "3" -> 3
    [] c = "4" -> 4 [] c = "5" -> 5 [] c = "6" -> 6 [] c = "7" -> 7
    [] c = "8" -> 8 [] c = "9" -> 9

DigitChar(d) ==
  CASE d = 0 -> "0" [] d = 1 -> "1" [] d = 2 -> "2" [] d = 3 -> "3"
    [] d = 4 -> "4" [] d = 5 -> "5" [] d = 6 -> "6" [] d = 7 -> "7"
    [] d = 8 -> "8" [] d = 9 -> "9"

\* the decimal text of an integer, as a browser puts it in the query string
RECURSIVE NatText(_)
NatText(n) ==
  IF n < 10 THEN <<DigitChar(n)>>
  ELSE Append(NatText(n \div 10), DigitChar(n % 10))

IntText(n) == IF n < 0 THEN <<"-">> \o NatText(-n) ELSE NatText(n)

----------------------------------------------------------------------------
(* fms.service.ts: security configuration *)

ALLOWED_MIME_TYPES == <<"image/jpeg", "image/jpg", "image/png", "image/webp">>

MAX_FILE_SIZE_BYTES == 5 * 1024 * 1024

\* Array.prototype.includes
Includes(arr, x) == \E i \in DOMAIN arr : arr[i] = x

----------------------------------------------------------------------------
(* Outcomes of a call: a returned value or a thrown exception *)

NoException == [name |-> "none", message |-> <<>>]

BadRequestException(message) ==
  [name |-> "BadRequestException", message |-> message]

Returned(value) == [threw |-> FALSE, exception |-> NoException, value |-> value]

Threw(exception) == [threw |-> TRUE, exception |-> exception, value |-> <<>>]

----------------------------------------------------------------------------
(* fms.service.ts: FmsService *)

\* String.prototype.replace(pattern, replacement) with a string pattern:
\* only the first occurrence is replaced
FirstIndexOf(url, pattern) ==
  LET hits == {i \in 1..(Len(url) - Len(pattern) + 1) :
                 SubSeq(url, i, i + Len(pattern) - 1) = pattern}
  IN IF hits = {} THEN 0 ELSE CHOOSE i \in hits : \A j \in hits : i <= j

Replace(url, pattern, replacement) ==
  LET i == FirstIndexOf(url, pattern)
  IN IF i = 0 THEN url
     ELSE SubSeq(url, 1, i - 1) \o replacement
            \o SubSeq(url, i + Len(pattern), Len(url))

\* every occurrence replaced, left to right (String.prototype.replaceAll)
RECURSIVE ReplaceAll(_, _, _)
ReplaceAll(url, pattern, replacement) ==
  LET i == FirstIndexOf(url, pattern)
  IN IF i = 0 THEN url
     ELSE SubSeq(url, 1, i - 1) \o replacement
            \o ReplaceAll(SubSeq(url, i + Len(pattern), Len(url)),
                          pattern, replacement)

toPublicUrl_all(url) ==
  IF Truthy(internalEndpoint) /\ Truthy(publicEndpoint)
  THEN ReplaceAll(url, internalEndpoint, publicEndpoint)
  ELSE url

toPublicUrl(url) ==
  IF Truthy(internalEndpoint) /\ Truthy(publicEndpoint)
  THEN Replace(url, internalEndpoint, publicEndpoint)
  ELSE url

validateContentType_falsy(contentType) ==
  IF contentType # UndefinedStr /\ contentType # ""
     /\ ~Includes(ALLOWED_MIME_TYPES, contentType)
  THEN Threw(BadRequestException(
         <<"Invalid file type", contentType, ALLOWED_MIME_TYPES>>))
  ELSE Returned(<<>>)

validateContentType(contentType) ==
  IF ~Includes(ALLOWED_MIME_TYPES, contentType)
  THEN Threw(BadRequestException(
         <<"Invalid file type", contentType, ALLOWED_MIME_TYPES>>))
  ELSE Returned(<<>>)

\* !fileSize: true of 0, NaN and undefined
Falsy(fileSize) == fileSize.kind # "number" \/ fileSize.n = 0

\* (fileSize / (1024 * 1024)).toFixed(2), in hundredths of a megabyte
\* (the quotient is exact in binary, so toFixed rounds the true value)
FileSizeMBHundredths(n) == (2 * 100 * n + 1024 * 1024) \div (2 * 1024 * 1024)

validateFileSize_inclusive(fileSize) ==
  IF Falsy(fileSize) \/ fileSize.n <= 0
  THEN Threw(BadRequestException(<<"File size must be a positive number">>))
  ELSE IF fileSize.n >= MAX_FILE_SIZE_BYTES
  THEN Threw(BadRequestException(
         <<"File size exceeds maximum allowed size",
           FileSizeMBHundredths(fileSize.n),
           MAX_FILE_SIZE_BYTES \div (1024 * 1024)>>))
  ELSE Returned(<<>>)

validateFileSize_falsyOnly(fileSize) ==
  IF Falsy(fileSize)
  THEN Threw(BadRequestException(<<"File size must be a positive number">>))
  ELSE IF fileSize.n > MAX_FILE_SIZE_BYTES
  THEN Threw(BadRequestException(
         <<"File size exceeds maximum allowed size",
           FileSizeMBHundredths(fileSize.n),
           MAX_FILE_SIZE_BYTES \div (1024 * 1024)>>))
  ELSE Returned(<<>>)

validateFileSize(fileSize) ==
  IF Falsy(fileSize) \/ fileSize.n <= 0
  THEN Threw(BadRequestException(<<"File size must be a positive number">>))
  ELSE IF fileSize.n > MAX_FILE_SIZE_BYTES
  THEN Threw(BadRequestException(
         <<"File size exceeds maximum allowed size",
           FileSizeMBHundredths(fileSize.n),
           MAX_FILE_SIZE_BYTES \div (1024 * 1024)>>))
  ELSE Returned(<<>>)

----------------------------------------------------------------------------
(* The SDK calls the service makes *)

PutObjectCommand(bucket, key, contentType, contentLength) ==
  [name |-> "PutObject", Bucket |-> bucket, Key |-> key,
   ContentType |-> contentType, ContentLength |-> contentLength]

GetObjectCommand(bucket, key) ==
  [name |-> "GetObject", Bucket |-> bucket, Key |-> key,
   ContentType |-> UndefinedStr, ContentLength |-> UndefinedNum]

\* getSignedUrl(client, command, { expiresIn }): with an endpoint and
\* forcePathStyle the URL is <endpoint>/<bucket>/<key>?<signature>, otherwise
\* the virtual-hosted AWS form
getSignedUrl(client, command, expiresIn) ==
  LET origin == IF client.forcePathStyle
                THEN client.endpoint \o <<"/", command.Bucket>>
                ELSE <<"https://", command.Bucket, ".s3.", client.region,
                       ".amazonaws.com">>
  IN origin \o <<"/", command.Key, "?X-Amz-Expires=", ToString(expiresIn),
                 "&x-id=", command.name>>

NoSignerCall ==
  [called |-> FALSE, command |-> GetObjectCommand("", ""), expiresIn |-> 0,
   url |-> <<>>]

SignerCall(command, expiresIn) ==
  [called |-> TRUE, command |-> command, expiresIn |-> expiresIn,
   url |-> getSignedUrl(s3Client, command, expiresIn)]

\* the result of a service method: its outcome and the signer call it made
Result(outcome, signer) == [outcome |-> outcome, signer |-> signer]

getPreSignedURL(key, contentType, fileSize) ==
  LET typeCheck == validateContentType(contentType)
      sizeCheck == validateFileSize(fileSize)
      command == PutObjectCommand(bucketName, key, contentType, fileSize)
      signer == SignerCall(command, 1800)
  IN IF typeCheck.threw THEN Result(typeCheck, NoSignerCall)
     ELSE IF sizeCheck.threw THEN Result(sizeCheck, NoSignerCall)
     ELSE Result(Returned(toPublicUrl(signer.url)), signer)

getPreSignedURLToViewObject_longLived(key) ==
  LET command == GetObjectCommand(bucketName, key)
      signer == SignerCall(command, 1800)
  IN Result(Returned(toPublicUrl(signer.url)), signer)

getPreSignedURLToViewObject(key) ==
  LET command == GetObjectCommand(bucketName, key)
      signer == SignerCall(command, 300)
  IN Result(Returned(toPublicUrl(signer.url)), signer)

----------------------------------------------------------------------------
(* fms.controller.ts: FmsController *)

\* ParseIntPipe: a query value that is not an optionally signed run of
\* digits is refused, any other is parsed base 10
IsNumericString(text) ==
  /\ Len(text) >= 1
  /\ IF text[1] = "-"
     THEN Len(text) >= 2 /\ \A i \in 2..Len(text) : text[i] \in Digits
     ELSE \A i \in 1..Len(text) : text[i] \in Digits

RECURSIVE ParseNat(_)
ParseNat(text) ==
  IF Len(text) = 0 THEN 0
  ELSE 10 * ParseNat(SubSeq(text, 1, Len(text) - 1))
         + DigitValue(text[Len(text)])

ParseInt(text) ==
  IF text[1] = "-" THEN 0 - ParseNat(Tail(text)) ELSE ParseNat(text)

ParseIntPipe(text) ==
  IF IsNumericString(text) THEN Returned(Num(ParseInt(text)))
  ELSE Threw(BadRequestException(
         <<"Validation failed (numeric string is expected)">>))

getUploadConstraints_gif ==
  [allowedMimeTypes |-> <<"image/jpeg", "image/png", "image/gif", "image/webp">>,
   maxFileSizeBytes |-> MAX_FILE_SIZE_BYTES,
   maxFileSizeMB |-> MAX_FILE_SIZE_BYTES \div (1024 * 1024)]

getUploadConstraints ==
  [allowedMimeTypes |-> ALLOWED_MIME_TYPES,
   maxFileSizeBytes |-> MAX_FILE_SIZE_BYTES,
   maxFileSizeMB |-> MAX_FILE_SIZE_BYTES \div (1024 * 1024)]

----------------------------------------------------------------------------
(* Inputs *)

SizeValues ==
  ((0 - SizeSlack)..SizeSlack)
    \cup ((MAX_FILE_SIZE_BYTES - SizeSlack)..(MAX_FILE_SIZE_BYTES + SizeSlack))
    \cup {102400, 2 * MAX_FILE_SIZE_BYTES}

\* the numbers a caller of the service can pass
FileSizes == {Num(n) : n \in SizeValues} \cup {NaN, UndefinedNum}

\* the fileSize query values a client can send
QueryFileSizes ==
  {IntText(n) : n \in SizeValues}
    \cup {<<>>, <<"a", "b", "c">>, <<"1", ".", "5">>, <<"-">>}

EnvValues ==
  [S3_ENDPOINT : EndpointValues, S3_PUBLIC_ENDPOINT : EndpointValues,
   AWS_BUCKET_NAME : {"", "my-bucket"}, AWS_BUCKET_REGION : {"", "us-east-2"}]

NoRequest == [route |-> "none", key |-> "", contentType |-> "", fileSize |-> <<>>]

NoSvcCall ==
  [method |-> "none", key |-> "", contentType |-> "", fileSize |-> UndefinedNum]

SvcCall(method, key, contentType, fileSize) ==
  [method |-> method, key |-> key, contentType |-> contentType,
   fileSize |-> fileSize]

----------------------------------------------------------------------------
(* State machine *)

\* FmsService.constructor, run once under some environment
Init ==
  /\ env \in EnvValues
  /\ internalEndpoint = env.S3_ENDPOINT
  /\ publicEndpoint = OrElse(env.S3_PUBLIC_ENDPOINT, env.S3_ENDPOINT)
  /\ s3Client =
       [region |-> IF env.AWS_BUCKET_REGION = "" THEN "us-east-1"
                   ELSE env.AWS_BUCKET_REGION,
        endpoint |-> IF Truthy(env.S3_ENDPOINT) THEN env.S3_ENDPOINT ELSE UNSET,
        forcePathStyle |-> Truthy(env.S3_ENDPOINT)]
  /\ bucketName = IF env.AWS_BUCKET_NAME = "" THEN "demo-bucket"
                  ELSE env.AWS_BUCKET_NAME
  /\ request = NoRequest
  /\ svcCall = NoSvcCall
  /\ signerCall = NoSignerCall
  /\ response = Returned(<<>>)

Fixed == UNCHANGED <<env, internalEndpoint, publicEndpoint, s3Client, bucketName>>

\* no call is in progress: the last outcome has been handed to its caller
Idle ==
  /\ request = NoRequest
  /\ svcCall = NoSvcCall
  /\ signerCall = NoSignerCall
  /\ response = Returned(<<>>)

\* GET /fms/upload-constraints
CtlGetUploadConstraints ==
  /\ Idle
  /\ request' = [NoRequest EXCEPT !.route = "upload-constraints"]
  /\ svcCall' = NoSvcCall
  /\ signerCall' = NoSignerCall
  /\ response' = Returned(getUploadConstraints)
  /\ Fixed

\* GET /fms/presigned-url/upload?key=..&contentType=..&fileSize=..
CtlGetPreSignedURL ==
  /\ Idle
  /\ \E key \in Keys, contentType \in ContentTypes, fileSize \in QueryFileSizes :
    LET parsed == ParseIntPipe(fileSize)
        result == getPreSignedURL(key, contentType, parsed.value)
    IN /\ request' = [route |-> "presigned-url/upload", key |-> key,
                      contentType |-> contentType, fileSize |-> fileSize]
       /\ IF parsed.threw
          THEN /\ svcCall' = NoSvcCall
               /\ signerCall' = NoSignerCall
               /\ response' = parsed
          ELSE /\ svcCall' = SvcCall("getPreSignedURL", key, contentType,
                                     parsed.value)
               /\ signerCall' = result.signer
               /\ response' = result.outcome
       /\ Fixed

\* GET /fms/presigned-url/view?key=..
CtlGetPreSignedURLToViewObject ==
  /\ Idle
  /\ \E key \in Keys :
    LET result == getPreSignedURLToViewObject(key)
    IN /\ request' = [NoRequest EXCEPT !.route = "presigned-url/view",
                                       !.key = key]
       /\ svcCall' = SvcCall("getPreSignedURLToViewObject", key, UndefinedStr,
                             UndefinedNum)
       /\ signerCall' = result.signer
       /\ response' = result.outcome
       /\ Fixed

\* FmsService.getPreSignedURL called by another provider, with any number
SvcGetPreSignedURL ==
  /\ Idle
  /\ \E key \in Keys, contentType \in ContentTypes, fileSize \in FileSizes :
    LET result == getPreSignedURL(key, contentType, fileSize)
    IN /\ request' = NoRequest
       /\ svcCall' = SvcCall("getPreSignedURL", key, contentType, fileSize)
       /\ signerCall' = result.signer
       /\ response' = result.outcome
       /\ Fixed

\* FmsService.validateContentType called on its own
SvcValidateContentType ==
  /\ Idle
  /\ \E contentType \in ContentTypes :
    /\ request' = NoRequest
    /\ svcCall' = SvcCall("validateContentType", "", contentType, UndefinedNum)
    /\ signerCall' = NoSignerCall
    /\ response' = validateContentType(contentType)
    /\ Fixed

\* FmsService.validateFileSize called on its own
SvcValidateFileSize ==
  /\ Idle
  /\ \E fileSize \in FileSizes :
    /\ request' = NoRequest
    /\ svcCall' = SvcCall("validateFileSize", "", UndefinedStr, fileSize)
    /\ signerCall' = NoSignerCall
    /\ response' = validateFileSize(fileSize)
    /\ Fixed

\* the outcome reaches the caller (the HTTP response is sent, the promise
\* settles); nothing of the call outlives it
Return ==
  /\ ~Idle
  /\ request' = NoRequest
  /\ svcCall' = NoSvcCall
  /\ signerCall' = NoSignerCall
  /\ response' = Returned(<<>>)
  /\ Fixed

Next ==
  \/ CtlGetUploadConstraints
  \/ CtlGetPreSignedURL
  \/ CtlGetPreSignedURLToViewObject
  \/ SvcGetPreSignedURL
  \/ SvcValidateContentType
  \/ SvcValidateFileSize
  \/ Return

Spec == Init /\ [][Next]_vars

----------------------------------------------------------------------------
(* Properties *)

UploadCall == svcCall.method = "getPreSignedURL"

ViewCall == svcCall.method = "getPreSignedURLToViewObject"

IsBadRequest(outcome) ==
  /\ outcome.threw
  /\ outcome.exception.name = "BadRequestException"
  /\ outcome.value = <<>>

FourImageTypes == {"image/jpeg", "image/jpg", "image/png", "image/webp"}

NonPositive(fileSize) == fileSize.kind # "number" \/ fileSize.n <= 0

StartsWith(url, prefix) ==
  Len(prefix) <= Len(url) /\ SubSeq(url, 1, Len(prefix)) = prefix

\* url, known to start with prefix, with that prefix exchanged for another
SwapPrefix(url, prefix, other) ==
  other \o SubSeq(url, Len(prefix) + 1, Len(url))

C2_FileSizeCeiling ==
  UploadCall /\ svcCall.fileSize.kind = "number" =>
    /\ svcCall.contentType \in FourImageTypes =>
         /\ (1 <= svcCall.fileSize.n /\ svcCall.fileSize.n <= 5242880) =>
              ~response.threw /\ signerCall.called
         /\ svcCall.fileSize.n > 5242880 =>
              IsBadRequest(response) /\ ~signerCall.called
    /\ ~response.threw => svcCall.fileSize.n <= 5242880

\* C2 witness: a declared size of exactly 5242880 bytes gets its URL
C2_Witness ==
  /\ UploadCall
  /\ svcCall.contentType = "image/jpeg"
  /\ svcCall.fileSize = Num(5242880)
  /\ ~response.threw
  /\ signerCall.called
  /\ signerCall.command.ContentLength = Num(5242880)

\* C3: validateFileSize refuses a zero, negative, NaN or missing fileSize
\* with 'File size must be a positive number' (never with the ceiling
\* message), and getPreSignedURL issues no URL for such a size.
C3_NonPositiveSizeRefused ==
  /\ (svcCall.method = "validateFileSize" /\ NonPositive(svcCall.fileSize)) =>
       /\ IsBadRequest(response)
       /\ response.exception.message = <<"File size must be a positive number">>
  /\ (UploadCall /\ NonPositive(svcCall.fileSize)) =>
       /\ IsBadRequest(response)
       /\ ~signerCall.called
       /\ svcCall.contentType \in FourImageTypes =>
            response.exception.message =
              <<"File size must be a positive number">>

\* C3 witness: an upload of an allowed type declaring -1 bytes is refused
C3_Witness ==
  /\ UploadCall
  /\ svcCall.contentType = "image/png"
  /\ svcCall.fileSize = Num(-1)
  /\ IsBadRequest(response)
  /\ response.exception.message[1] = "File size must be a positive number"

\* C4: every upload URL is signed for a PutObject command with expiry 1800 s
\* and every view URL for a GetObject command with expiry 300 s, whatever
\* the request holds.
C4_FixedExpiry ==
  /\ (UploadCall /\ ~response.threw) =>
       /\ signerCall.called
       /\ signerCall.command.name = "PutObject"
       /\ signerCall.expiresIn = 1800
  /\ ViewCall =>
       /\ ~response.threw
       /\ signerCall.called
       /\ signerCall.command.name = "GetObject"
       /\ signerCall.expiresIn = 300

\* C4 witness: a view URL has been signed for five minutes
C4_Witness ==
  /\ ViewCall
  /\ request.route = "presigned-url/view"
  /\ signerCall.called
  /\ signerCall.command.name = "GetObject"
  /\ signerCall.expiresIn = 300
  /\ ~response.threw

\* C5: the upload endpoint accepts contentType image/gif with a valid file
\* size and answers with a pre-signed upload URL.
C5_GifAccepted ==
  ( /\ request.route = "presigned-url/upload"
    /\ request.contentType = "image/gif"
    /\ UploadCall
    /\ svcCall.fileSize.n >= 1
    /\ svcCall.fileSize.n <= MAX_FILE_SIZE_BYTES )
  => ~response.threw

\* C6: what GET /fms/upload-constraints advertises is what the upload
\* enforces: with fileSize >= 1 a request passes validation exactly when its
\* contentType is among allowedMimeTypes and its fileSize is at most
\* maxFileSizeBytes; and the answer holds maxFileSizeBytes = 5242880 and
\* maxFileSizeMB = 5.
C6_ConstraintsAreEnforced ==
  /\ (UploadCall /\ svcCall.fileSize.kind = "number" /\ svcCall.fileSize.n >= 1)
       => ( ~response.threw <=>
              /\ Includes(getUploadConstraints.allowedMimeTypes,
                          svcCall.contentType)
              /\ svcCall.fileSize.n <= getUploadConstraints.maxFileSizeBytes )
  /\ request.route = "upload-constraints" =>
       /\ ~response.threw
       /\ response.value.maxFileSizeBytes = 5242880
       /\ response.value.maxFileSizeMB = 5
       /\ response.value.allowedMimeTypes = getUploadConstraints.allowedMimeTypes

\* C6 witness: the constraints have been served
C6_Witness ==
  /\ request.route = "upload-constraints"
  /\ ~response.threw
  /\ Len(response.value.allowedMimeTypes) = 4
  /\ response.value.maxFileSizeMB = 5

\* the public endpoint the environment asks for
ConfiguredPublicEndpoint ==
  IF Truthy(env.S3_PUBLIC_ENDPOINT) THEN env.S3_PUBLIC_ENDPOINT
  ELSE env.S3_ENDPOINT

UrlIssued == (UploadCall \/ ViewCall) /\ ~response.threw /\ signerCall.called

====
